---- MODULE Spec2Model ----
(***************************************************************************)
(* A model of the recommendation scraper (src/src/recommendationScraper.py) *)
(* and of the mining campaign (src/src/MineBias.py).                        *)
(*                                                                          *)
(* Python dicts are functions whose DOMAIN is the set of keys present;      *)
(* Python lists are sequences (index 0 of the code is index 1 here).        *)
(***************************************************************************)
EXTENDS Integers, Sequences, FiniteSets, TLC

\* ------------------------------------------------------------------------
\* Bounds of the model
\* ------------------------------------------------------------------------
\* longest token stream of a fetched page
MaxHtmlLen == 7
\* longest results list of a parsed object
MaxItems == 2
\* longest list given to mine_channel_recommendations called on its own
MaxVideos == 2
\* number of channels given to mine_recommendation_bias
NumChannels == 2
\* longest video list of a channel given to mine_recommendation_bias
MaxChannelVideos == 1

\* ------------------------------------------------------------------------
\* Python values
\* ------------------------------------------------------------------------
\* the empty dict {}
EmptyDict == [k \in {} |-> k]
\* Python's None (what dict.get returns without a default)
None == "<None>"

\* dict.get(k, default)
Get(d, k, default) == IF k \in DOMAIN d THEN d[k] ELSE default

\* a call that returned v
Return(v) == [kind |-> "return", exc |-> "", msg |-> "", value |-> v]
\* a call that raised an exception of class exc with message msg
Raise(exc, msg) == [kind |-> "raise", exc |-> exc, msg |-> msg, value |-> <<>>]

\* ------------------------------------------------------------------------
\* Pages.  A page's markup is a stream of tokens:
\*   "S"  the opening of a script block (closing the block before it);
\*        text before the first "S" is markup outside every script block
\*   "M"  the text  var ytInitialData =
\*   ";"  the character ;
\*   " "  a whitespace character
\*   "J"  the serialisation of the page's JSON object `data` (no ; inside)
\*   "x"  text that is not JSON (arises from cutting a "J" or an "M" short)
\* ------------------------------------------------------------------------
Tokens == {"S", "M", ";", " ", "J"}

RECURSIVE find_all_script(_, _, _, _)
\* soup.find_all("script"), then script.text of each: the token runs that
\* follow each "S", in document order
find_all_script(html, i, inside, acc) ==
    IF i > Len(html) THEN acc
    ELSE IF html[i] = "S" THEN find_all_script(html, i + 1, TRUE, Append(acc, <<>>))
    ELSE IF inside
         THEN find_all_script(html, i + 1, TRUE,
                  [acc EXCEPT ![Len(acc)] = Append(acc[Len(acc)], html[i])])
         ELSE find_all_script(html, i + 1, FALSE, acc)

\* "var ytInitialData =" in script.text
HasMarker(text) == \E i \in 1..Len(text) : text[i] = "M"

\* script.text.find(marker) + len(marker), as the number of tokens before
\* the position it names
MarkerEnd(text) == CHOOSE i \in 1..Len(text) :
                       text[i] = "M" /\ \A j \in 1..(i - 1) : text[j] # "M"

\* script.text.rfind(";") as a token index; 0 stands for Python's -1
RFindSemi(text) ==
    IF \E i \in 1..Len(text) : text[i] = ";"
    THEN CHOOSE i \in 1..Len(text) :
             text[i] = ";" /\ \A j \in (i + 1)..Len(text) : text[j] # ";"
    ELSE 0

\* text[:-1] on the last token: a one-character token disappears, a longer
\* one is cut short and is no longer JSON text
DropLastChar(text) ==
    IF Len(text) = 0 THEN text
    ELSE IF text[Len(text)] \in {"J", "M"}
         THEN [text EXCEPT ![Len(text)] = "x"]
         ELSE SubSeq(text, 1, Len(text) - 1)

\* script.text[start:end] with start after the marker and end = rfind(";")
Slice(text) ==
    LET start == MarkerEnd(text)
        end == RFindSemi(text)
    IN  IF end # 0
        THEN SubSeq(text, start + 1, end - 1)
        ELSE IF start = Len(text) THEN <<>>
             ELSE SubSeq(DropLastChar(text), start + 1, Len(DropLastChar(text)))

RECURSIVE LStrip(_)
LStrip(s) == IF Len(s) > 0 /\ s[1] = " " THEN LStrip(Tail(s)) ELSE s
RECURSIVE RStrip(_)
RStrip(s) == IF Len(s) > 0 /\ s[Len(s)] = " " THEN RStrip(SubSeq(s, 1, Len(s) - 1)) ELSE s
\* str.strip()
Strip(s) == RStrip(LStrip(s))

\* ------------------------------------------------------------------------
\* Parsed objects
\* ------------------------------------------------------------------------
\* the keys of data["contents"]["twoColumnWatchNextResults"]
\* ["secondaryResults"]["secondaryResults"]["results"]
PathKeys == <<"contents", "twoColumnWatchNextResults", "secondaryResults",
              "secondaryResults", "results">>

RECURSIVE Navigate(_, _)
\* the chain of subscriptions from key i on; a missing key is a KeyError
Navigate(d, i) ==
    IF i > Len(PathKeys) THEN [found |-> TRUE, value |-> d]
    ELSE IF PathKeys[i] \in DOMAIN d THEN Navigate(d[PathKeys[i]], i + 1)
    ELSE [found |-> FALSE, value |-> <<>>]

\* "compactVideoRenderer" in item
IsCompactVideo(item) == "compactVideoRenderer" \in DOMAIN item

\* video_data.get("longBylineText", {}).get("runs", [{}])
BylineRuns(video_data) ==
    Get(Get(video_data, "longBylineText", EmptyDict), "runs", <<EmptyDict>>)

\* the [0] of line 62 raises IndexError on an empty list
RaisesIndexError(item) == Len(BylineRuns(item["compactVideoRenderer"])) = 0

\* the record appended for one compactVideoRenderer item
ItemRecord(item) ==
    LET video_data == item["compactVideoRenderer"]
        channel_info == BylineRuns(video_data)[1]
    IN  [video_id |-> Get(video_data, "videoId", None),
         title |-> Get(Get(video_data, "title", EmptyDict), "simpleText", ""),
         channel_name |-> Get(channel_info, "text", ""),
         channel_id |-> Get(Get(Get(channel_info, "navigationEndpoint", EmptyDict),
                                "browseEndpoint", EmptyDict), "browseId", "")]

RECURSIVE ParseItems(_, _, _)
\* the for loop over items: appends in list order, stops at the first raise
ParseItems(items, i, recommended_videos) ==
    IF i > Len(items) THEN Return(recommended_videos)
    ELSE IF ~IsCompactVideo(items[i]) THEN ParseItems(items, i + 1, recommended_videos)
    ELSE IF RaisesIndexError(items[i]) THEN Raise("IndexError", "list index out of range")
    ELSE ParseItems(items, i + 1, Append(recommended_videos, ItemRecord(items[i])))

\* ParseData with a handler that swallows the KeyError
ParseDataSwallowing(data) ==
    LET nav == Navigate(data, 1)
    IN  IF ~nav.found THEN Return(<<>>) ELSE ParseItems(nav.value, 1, <<>>)

\* ParseData raising the message of the missing-blob error
ParseDataSameMessage(data) ==
    LET nav == Navigate(data, 1)
    IN  IF ~nav.found
        THEN Raise("Exception", "Could not find the ytInitialData script in the page.")
        ELSE ParseItems(nav.value, 1, <<>>)

\* the try block of parse_recommended_videos: only KeyError is translated
ParseData(data) ==
    LET nav == Navigate(data, 1)
    IN  IF ~nav.found
        THEN Raise("Exception", "Failed to parse recommended videos. The structure might have changed.")
        ELSE ParseItems(nav.value, 1, <<>>)

\* the scripts that contain the marker, as indices into scripts
MarkerScripts(scripts) == {i \in 1..Len(scripts) : HasMarker(scripts[i])}

\* ChosenScript of a loop without its break: the last one with the marker
ChosenScriptNoBreak(scripts) ==
    CHOOSE i \in MarkerScripts(scripts) : \A j \in MarkerScripts(scripts) : i >= j

\* the script the for loop breaks on: the first one with the marker
ChosenScript(scripts) ==
    CHOOSE i \in MarkerScripts(scripts) : \A j \in MarkerScripts(scripts) : i <= j

\* yt_initial_data after the loop; <<>> stands for both None and ""
YtInitialData(scripts) ==
    IF MarkerScripts(scripts) = {} THEN <<>>
    ELSE Strip(Slice(scripts[ChosenScript(scripts)]))

\* json.loads accepts the text iff it is exactly the serialised object
IsJson(text) == text = <<"J">>

\* parse_recommended_videos(html); data is what the page's "J" decodes to
parse_recommended_videos(html, data) ==
    LET yt_initial_data == YtInitialData(find_all_script(html, 1, FALSE, <<>>))
    IN  IF yt_initial_data = <<>>
        THEN Raise("Exception", "Could not find the ytInitialData script in the page.")
        ELSE IF ~IsJson(yt_initial_data)
        THEN Raise("JSONDecodeError", "json.loads")
        ELSE ParseData(data)

\* the outcomes of requests.get: a status code, or "error" when it raises
GoodStatus == "200"
FetchOutcomes == {GoodStatus, "404", "error"}

\* fetch_html followed by parse_recommended_videos, errors passed on unchanged
get_recommended_videos(response, page) ==
    IF response = "error" THEN Raise("RequestException", "requests.get")
    ELSE IF response # GoodStatus
    THEN Raise("Exception", "Failed to fetch video page, status code")
    ELSE parse_recommended_videos(page.html, page.data)

\* ------------------------------------------------------------------------
\* Inputs of the scraper
\* ------------------------------------------------------------------------
VideoIdPart == {EmptyDict, [videoId |-> "v1"]}
TitlePart == {EmptyDict, [title |-> EmptyDict], [title |-> [simpleText |-> "T"]]}
TextPart == {EmptyDict, [text |-> "Chan"]}
NavigationPart == {EmptyDict,
                   [navigationEndpoint |-> EmptyDict],
                   [navigationEndpoint |-> [browseEndpoint |-> EmptyDict]],
                   [navigationEndpoint |-> [browseEndpoint |-> [browseId |-> "UC1"]]]}
RunSet == {t @@ n : t \in TextPart, n \in NavigationPart}
BylinePart == {EmptyDict, [longBylineText |-> EmptyDict],
               [longBylineText |-> [runs |-> <<>>]]}
              \cup {[longBylineText |-> [runs |-> <<r>>]] : r \in RunSet}
\* an item of another shape (an ad, a shelf, a continuation)
OtherItem == [continuationItemRenderer |-> EmptyDict]
CompactItems == {[compactVideoRenderer |-> v @@ t @@ b] :
                     v \in VideoIdPart, t \in TitlePart, b \in BylinePart}
Items == {OtherItem} \cup CompactItems

RECURSIVE Wrap(_, _)
\* value under the keys i.. of the mandatory path
Wrap(value, i) ==
    IF i > Len(PathKeys) THEN value
    ELSE (PathKeys[i] :> Wrap(value, i + 1))

RECURSIVE Truncated(_, _)
\* the object whose path resolves for the first k keys only
Truncated(k, i) ==
    IF i > k THEN EmptyDict ELSE (PathKeys[i] :> Truncated(k, i + 1))

GoodItem == [compactVideoRenderer |->
               [videoId |-> "v1", title |-> [simpleText |-> "T"],
                longBylineText |-> [runs |-> <<[text |-> "Chan",
                    navigationEndpoint |-> [browseEndpoint |-> [browseId |-> "UC1"]]]>>]]]
GoodData == Wrap(<<GoodItem>>, 1)
GoodHtml == <<"S", "M", "J", ";">>

\* the pages served: any markup around a good object, or good markup
\* around any object
IsPage(p) ==
    \/ \E n \in 0..MaxHtmlLen : \E h \in [1..n -> Tokens] :
           p = [html |-> h, data |-> GoodData]
    \/ \E n \in 0..MaxItems : \E items \in [1..n -> Items] :
           p = [html |-> GoodHtml, data |-> Wrap(items, 1)]
    \/ \E k \in 0..(Len(PathKeys) - 1) :
           p = [html |-> GoodHtml, data |-> Truncated(k, 1)]

\* ------------------------------------------------------------------------
\* The scraper as a state machine: one call of get_recommended_videos
\* ------------------------------------------------------------------------
VARIABLES
    \* one call of get_recommended_videos
    page,               \* the page the platform serves
    response,           \* what requests.get gave
    spc,                \* where the call stands
    result,             \* what the call returned or raised
    \* mine_channel_recommendations
    video_ids,          \* the argument
    progress,           \* the local `progress`: list positions entered
    recommendations,    \* the local dict `recommendations`
    pc,                 \* where the run stands
    log,                \* history: per list position, the Miner calls made
    gap,                \* history: time slept since the latest Miner call
    lastGap,            \* history: time slept between the latest two calls
    \* mine_recommendation_bias
    files,              \* channel_bias/<channel>.json, per channel
    files0,             \* history: the files as the campaign found them
    recommendation_bias,\* the local dict `recommendation_bias`
    ci,                 \* the position of the loop in channel_videos
    bpc,                \* where the campaign stands
    started             \* history: channels mine_channel_recommendations ran for

svars == <<page, response, spc, result>>
rvars == <<video_ids, progress, recommendations, pc, log, gap, lastGap>>
bvars == <<files, files0, recommendation_bias, ci, bpc, started>>
vars == <<svars, rvars, bvars>>

NoResult == Return(<<>>)

ScraperStart ==
    /\ IsPage(page)
    /\ response = "none"
    /\ spc = "start"
    /\ result = NoResult

\* fetch_html returns response.text
FetchHtml ==
    /\ spc = "start"
    /\ response' = GoodStatus
    /\ spc' = "fetched"
    /\ UNCHANGED <<page, result, rvars, bvars>>

\* fetch_html raises: a status other than 200, or requests.get itself fails
FetchFails ==
    /\ spc = "start"
    /\ \E r \in FetchOutcomes \ {GoodStatus} :
          /\ response' = r
          /\ result' = get_recommended_videos(r, page)
    /\ spc' = "done"
    /\ UNCHANGED <<page, rvars, bvars>>

\* parse_recommended_videos on the fetched text
ParseRecommendedVideos ==
    /\ spc = "fetched"
    /\ result' = get_recommended_videos(response, page)
    /\ spc' = "done"
    /\ UNCHANGED <<page, response, rvars, bvars>>

ScraperNext == FetchHtml \/ FetchFails \/ ParseRecommendedVideos

\* ------------------------------------------------------------------------
\* mine_channel_recommendations
\* ------------------------------------------------------------------------
\* random.randint(1, 3)
MinPause == 1
MaxPause == 3
\* PauseChoices of random.randint(0, 3)
PauseChoicesFromZero == 0..MaxPause
PauseChoices == MinPause..MaxPause

SourceIds == {"x", "y"}

\* d[k] = v
Put(d, k, v) == [i \in DOMAIN d \cup {k} |-> IF i = k THEN v ELSE d[i]]

\* what the platform may answer to one Miner call: a good page, another
\* good page, a page without the marker, each under every fetch outcome
OtherItem2 == [compactVideoRenderer |-> [videoId |-> "v2"]]
SamplePages == {[html |-> GoodHtml, data |-> GoodData],
                [html |-> GoodHtml, data |-> Wrap(<<OtherItem2>>, 1)],
                [html |-> <<"S", "J", ";">>, data |-> GoodData]}
MinerOutcomes ==
    {get_recommended_videos(r, p) : r \in FetchOutcomes, p \in SamplePages}

\* what the history keeps of a call
LogEntry(outcome) == [kind |-> outcome.kind, value |-> outcome.value]

\* AfterAttempt of a handler that records a failure as an empty list
AfterAttemptMarkingFailure(recs, video_id, outcome) ==
    Put(recs, video_id, outcome.value)

\* AfterAttempt of a handler that deletes the id's entry when the call raised
AfterAttemptDroppingOnFailure(recs, video_id, outcome) ==
    IF outcome.kind = "return"
    THEN Put(recs, video_id, outcome.value)
    ELSE [i \in DOMAIN recs \ {video_id} |-> recs[i]]

\* the dict after the assignment of line 51 / 54 was attempted
AfterAttempt(recs, video_id, outcome) ==
    IF outcome.kind = "return" THEN Put(recs, video_id, outcome.value) ELSE recs

\* where the first call leaves the iteration: in the handler or at the sleep
AfterFirstCall(outcome) == IF outcome.kind = "raise" THEN "retry" ELSE "sleep"

\* AfterSecondCall of a loop that retries until the call returns
AfterSecondCallRetrying(outcome) == IF outcome.kind = "raise" THEN "retry" ELSE "sleep"

\* where the second call leaves the iteration: at the sleep, whatever it did
AfterSecondCall(outcome) == "sleep"

\* the run is over and its locals are gone
RunEnds ==
    /\ video_ids' = <<>>
    /\ progress' = 0
    /\ recommendations' = EmptyDict
    /\ pc' = "idle"
    /\ log' = <<>>
    /\ gap' = 0
    /\ lastGap' = 0

\* the call mine_channel_recommendations(ids): lines 43-45
RunStarts(ids) ==
    /\ video_ids' = ids
    /\ progress' = 0
    /\ recommendations' = EmptyDict
    /\ pc' = "loop"
    /\ log' = [p \in 1..Len(ids) |-> <<>>]
    /\ gap' = 0
    /\ lastGap' = 0

\* lines 46-52: the next list position, and the first call for it
FirstCall ==
    /\ pc = "loop"
    /\ progress < Len(video_ids)
    /\ progress' = progress + 1
    /\ \E outcome \in MinerOutcomes :
          /\ recommendations' = AfterAttempt(recommendations, video_ids[progress + 1], outcome)
          /\ pc' = AfterFirstCall(outcome)
          /\ log' = [log EXCEPT ![progress + 1] = Append(@, LogEntry(outcome))]
    /\ lastGap' = gap
    /\ gap' = 0
    /\ UNCHANGED <<video_ids, svars, bvars>>

\* lines 53-56: the call in the handler of the first one
SecondCall ==
    /\ pc = "retry"
    /\ \E outcome \in MinerOutcomes :
          /\ recommendations' = AfterAttempt(recommendations, video_ids[progress], outcome)
          /\ pc' = AfterSecondCall(outcome)
          /\ log' = [log EXCEPT ![progress] = Append(@, LogEntry(outcome))]
    /\ lastGap' = gap
    /\ gap' = 0
    /\ UNCHANGED <<video_ids, progress, svars, bvars>>

\* line 57: time.sleep(random.randint(1, 3))
Sleep ==
    /\ pc = "sleep"
    /\ \E n \in PauseChoices : gap' = gap + n
    /\ pc' = "loop"
    /\ UNCHANGED <<video_ids, progress, recommendations, log, lastGap, svars, bvars>>

\* line 58: return recommendations
ReturnRecommendations ==
    /\ pc = "loop"
    /\ progress = Len(video_ids)
    /\ pc' = "returned"
    /\ UNCHANGED <<video_ids, progress, recommendations, log, gap, lastGap, svars, bvars>>

RunNext == FirstCall \/ SecondCall \/ Sleep \/ ReturnRecommendations

\* ------------------------------------------------------------------------
\* mine_recommendation_bias
\* ------------------------------------------------------------------------
\* the keys of channel_videos, in the order of the dict
Channels == 1..NumChannels

\* a checkpoint file: none, one that json.load rejects, one holding a dict
NoFile == [exists |-> FALSE, valid |-> FALSE, data |-> EmptyDict]
CorruptFile == [exists |-> TRUE, valid |-> FALSE, data |-> EmptyDict]
Stored(d) == [exists |-> TRUE, valid |-> TRUE, data |-> d]
OldBias == ("x" :> <<[video_id |-> "v9", title |-> "", channel_name |-> "",
                      channel_id |-> ""]>>)
FileStates == {NoFile, CorruptFile, Stored(EmptyDict), Stored(OldBias)}

\* load_channel_bias_from_json: FileNotFoundError gives {}, a file that is
\* not JSON raises out of the function
load_channel_bias_from_json(file) ==
    IF ~file.exists THEN Return(EmptyDict)
    ELSE IF ~file.valid THEN Raise("JSONDecodeError", "json.load")
    ELSE Return(file.data)

\* `if bias_data:`
Truthy(d) == DOMAIN d # {}

\* BiasRepository.get_outlet_name_by_id: bias_data[source_id]['name'], a
\* KeyError for an id the bias table does not hold
get_outlet_name_by_id(known) ==
    IF known THEN Return("name") ELSE Raise("KeyError", "source_id")

\* save_channel_bias_to_json: the file after the call, by how far it got
\* ("saved": to the end; "unopened": it raised before open() truncated the
\* file; "truncated": it raised after)
SaveOutcomes == {"saved", "unopened", "truncated"}

\* save_channel_bias_to_json that returns without writing the file
save_channel_bias_to_jsonNotWriting(file, bias_data, how) == file

save_channel_bias_to_json(file, bias_data, how) ==
    IF how = "saved" THEN Stored(bias_data)
    ELSE IF how = "unopened" THEN file
    ELSE CorruptFile

\* lines 112-118: the next channel; its checkpoint is loaded and, when it
\* holds something, taken as the channel's result
LoadChannel ==
    /\ bpc = "next"
    /\ ci < NumChannels
    /\ ci' = ci + 1
    /\ LET loaded == load_channel_bias_from_json(files[ci + 1])
       IN  IF loaded.kind = "raise"
           THEN /\ bpc' = "raised"
                /\ UNCHANGED recommendation_bias
           ELSE IF Truthy(loaded.value)
           THEN \E known \in BOOLEAN :
                   IF get_outlet_name_by_id(known).kind = "raise"
                   THEN /\ bpc' = "raised"
                        /\ UNCHANGED recommendation_bias
                   ELSE /\ recommendation_bias' = Put(recommendation_bias, ci + 1, loaded.value)
                        /\ bpc' = "next"
           ELSE /\ bpc' = "mine"
                /\ UNCHANGED recommendation_bias
    /\ UNCHANGED <<files, files0, started, svars, rvars>>

\* lines 120-122 and 125-128: the channel's video ids are handed to
\* mine_channel_recommendations, unless the name lookup for the message
\* raises, which the handler turns into an empty result
BeginMining ==
    /\ bpc = "mine"
    /\ \E known \in BOOLEAN :
          IF get_outlet_name_by_id(known).kind = "raise"
          THEN /\ recommendation_bias' = Put(recommendation_bias, ci, EmptyDict)
               /\ bpc' = "next"
               /\ UNCHANGED <<started, rvars>>
          ELSE /\ \E n \in 0..MaxChannelVideos : \E ids \in [1..n -> SourceIds] :
                      RunStarts(ids)
               /\ started' = started \cup {ci}
               /\ bpc' = "mining"
               /\ UNCHANGED recommendation_bias
    /\ UNCHANGED <<files, files0, ci, svars>>

\* lines 123-128: the mined mapping is stored and saved; a save that raises
\* leaves the empty mapping as the channel's result
SaveChannel ==
    /\ bpc = "mining"
    /\ pc = "returned"
    /\ \E how \in SaveOutcomes :
          /\ files' = [files EXCEPT ![ci] = save_channel_bias_to_json(@, recommendations, how)]
          /\ recommendation_bias' =
                 Put(recommendation_bias, ci,
                     IF how = "saved" THEN recommendations ELSE EmptyDict)
    /\ bpc' = "next"
    /\ RunEnds
    /\ UNCHANGED <<files0, ci, started, svars>>

\* line 129: return recommendation_bias
ReturnBias ==
    /\ bpc = "next"
    /\ ci = NumChannels
    /\ bpc' = "returned"
    /\ UNCHANGED <<files, files0, recommendation_bias, ci, started, svars, rvars>>

BiasNext == LoadChannel \/ BeginMining \/ SaveChannel \/ ReturnBias \/ RunNext

\* ------------------------------------------------------------------------
\* Specifications
\* ------------------------------------------------------------------------
\* one call of get_recommended_videos on any page
ScraperInit ==
    /\ ScraperStart
    /\ video_ids = <<>>
    /\ progress = 0
    /\ recommendations = EmptyDict
    /\ pc = "idle"
    /\ log = <<>>
    /\ gap = 0
    /\ lastGap = 0
    /\ files = [c \in Channels |-> NoFile]
    /\ files0 = files
    /\ recommendation_bias = EmptyDict
    /\ ci = 0
    /\ bpc = "direct"
    /\ started = {}

SpecScraper == ScraperInit /\ [][ScraperNext]_vars

\* one call of mine_channel_recommendations on any list
Init ==
    /\ page = [html |-> GoodHtml, data |-> GoodData]
    /\ response = "none"
    /\ spc = "idle"
    /\ result = NoResult
    /\ files = [c \in Channels |-> NoFile]
    /\ files0 = files
    /\ recommendation_bias = EmptyDict
    /\ ci = 0
    /\ bpc = "direct"
    /\ started = {}
    /\ \E n \in 0..MaxVideos : \E ids \in [1..n -> SourceIds] :
          /\ video_ids = ids
          /\ log = [p \in 1..n |-> <<>>]
    /\ progress = 0
    /\ recommendations = EmptyDict
    /\ pc = "loop"
    /\ gap = 0
    /\ lastGap = 0

Next == RunNext

Spec == Init /\ [][Next]_vars

\* one call of mine_recommendation_bias on any channels and checkpoints
BiasInit ==
    /\ page = [html |-> GoodHtml, data |-> GoodData]
    /\ response = "none"
    /\ spc = "idle"
    /\ result = NoResult
    /\ video_ids = <<>>
    /\ progress = 0
    /\ recommendations = EmptyDict
    /\ pc = "idle"
    /\ log = <<>>
    /\ gap = 0
    /\ lastGap = 0
    /\ files \in [Channels -> FileStates]
    /\ files0 = files
    /\ recommendation_bias = EmptyDict
    /\ ci = 0
    /\ bpc = "next"
    /\ started = {}

SpecBias == BiasInit /\ [][BiasNext]_vars

\* ------------------------------------------------------------------------
\* Properties of the scraper
\* ------------------------------------------------------------------------
\* the script blocks of the page served
PageScripts == find_all_script(page.html, 1, FALSE, <<>>)

\* a text json.loads accepts: the serialised object, whitespace around it
IsJsonDocument(text) ==
    \E i \in 1..Len(text) :
        text[i] = "J" /\ \A j \in 1..Len(text) : j # i => text[j] = " "

\* the call ended, the page was fetched, and json.loads returned its object
Parsed ==
    /\ spc = "done"
    /\ response = GoodStatus
    /\ ~(result.kind = "raise" /\ result.msg \in
           {"Could not find the ytInitialData script in the page.", "json.loads"})

\* some key of the mandatory path is missing from the object it is looked up in
PathKeyMissing(d) ==
    \/ "contents" \notin DOMAIN d
    \/ "twoColumnWatchNextResults" \notin DOMAIN d["contents"]
    \/ "secondaryResults" \notin DOMAIN d["contents"]["twoColumnWatchNextResults"]
    \/ "secondaryResults" \notin
           DOMAIN d["contents"]["twoColumnWatchNextResults"]["secondaryResults"]
    \/ "results" \notin
           DOMAIN d["contents"]["twoColumnWatchNextResults"]["secondaryResults"]["secondaryResults"]

\* the results list of an object whose path resolves
ResultsOf(d) ==
    d["contents"]["twoColumnWatchNextResults"]["secondaryResults"]["secondaryResults"]["results"]

\* the positions of the compactVideoRenderer items of a results list
Recognized(items) == {i \in 1..Len(items) : "compactVideoRenderer" \in DOMAIN items[i]}

\* the place in the output of the record of the recognized item at position i
RecordIndex(items, i) == Cardinality({j \in Recognized(items) : j <= i})

\* the item's runs list is present and empty
HasEmptyRuns(item) ==
    LET v == item["compactVideoRenderer"]
    IN  /\ "longBylineText" \in DOMAIN v
        /\ "runs" \in DOMAIN v["longBylineText"]
        /\ Len(v["longBylineText"]["runs"]) = 0

\* the channel name the item gives, "" when absent at any level
GivenChannelName(item) ==
    LET v == item["compactVideoRenderer"]
    IN  IF "longBylineText" \notin DOMAIN v THEN ""
        ELSE IF "runs" \notin DOMAIN v["longBylineText"] THEN ""
        ELSE IF Len(v["longBylineText"]["runs"]) = 0 THEN ""
        ELSE IF "text" \notin DOMAIN v["longBylineText"]["runs"][1] THEN ""
        ELSE v["longBylineText"]["runs"][1]["text"]

\* the channel id the item gives, "" when absent at any level
GivenChannelId(item) ==
    LET v == item["compactVideoRenderer"]
    IN  IF "longBylineText" \notin DOMAIN v THEN ""
        ELSE IF "runs" \notin DOMAIN v["longBylineText"] THEN ""
        ELSE IF Len(v["longBylineText"]["runs"]) = 0 THEN ""
        ELSE LET r == v["longBylineText"]["runs"][1]
             IN  IF "navigationEndpoint" \notin DOMAIN r THEN ""
                 ELSE IF "browseEndpoint" \notin DOMAIN r["navigationEndpoint"] THEN ""
                 ELSE IF "browseId" \notin DOMAIN r["navigationEndpoint"]["browseEndpoint"]
                 THEN ""
                 ELSE r["navigationEndpoint"]["browseEndpoint"]["browseId"]

\* C5: a recognized item without a videoId field yields a record whose
\* video_id is the empty string, and no error.  Stated here for results
\* lists none of whose items has an empty runs list, so that the only
\* thing examined is the videoId rule.
C5_AbsentVideoIdIsEmptyString ==
    (Parsed /\ ~PathKeyMissing(page.data)) =>
        LET items == ResultsOf(page.data)
        IN  (\A i \in Recognized(items) : ~HasEmptyRuns(items[i])) =>
                /\ result.kind = "return"
                /\ \A i \in Recognized(items) :
                       "videoId" \notin DOMAIN items[i]["compactVideoRenderer"] =>
                           result.value[RecordIndex(items, i)].video_id = ""

\* C6: whatever level of the channel attribution is absent from a recognized
\* item, parsing raises no error and the record's channel_name / channel_id
\* are the given values, or the empty string where absent.
C6_AbsentChannelIsEmptyString ==
    (Parsed /\ ~PathKeyMissing(page.data)) =>
        LET items == ResultsOf(page.data)
        IN  /\ result.kind = "return"
            /\ \A i \in Recognized(items) :
                   /\ result.value[RecordIndex(items, i)].channel_name
                          = GivenChannelName(items[i])
                   /\ result.value[RecordIndex(items, i)].channel_id
                          = GivenChannelId(items[i])

\* C7: when a key of the mandatory path is missing, parsing raises the
\* "structure changed" error and returns no list at all.
C7_MissingPathRaisesStructureChanged ==
    (Parsed /\ PathKeyMissing(page.data)) =>
        /\ result.kind = "raise"
        /\ result.exc = "Exception"
        /\ result.msg = "Failed to parse recommended videos. The structure might have changed."

\* a run in which the path broke below its first key and parsing raised
C7_Witness ==
    /\ Parsed
    /\ "contents" \in DOMAIN page.data
    /\ PathKeyMissing(page.data)
    /\ result.kind = "raise"

\* C8: the output has exactly one record per compactVideoRenderer item, none
\* for the other items, in the order of the items in the list.
C8_OneRecordPerRecognizedItemInOrder ==
    (Parsed /\ ~PathKeyMissing(page.data)) =>
        LET items == ResultsOf(page.data)
        IN  /\ result.kind = "return"
            /\ Len(result.value) = Cardinality(Recognized(items))
            /\ \A i \in Recognized(items) :
                   LET v == items[i]["compactVideoRenderer"]
                       r == result.value[RecordIndex(items, i)]
                   IN  /\ "videoId" \in DOMAIN v => r.video_id = v["videoId"]
                       /\ r.channel_name = GivenChannelName(items[i])

\* C9: a recognized item without a title field does not fail the parse; its
\* record has title "" and the other fields the item gives.
C9_AbsentTitleIsEmptyString ==
    (Parsed /\ ~PathKeyMissing(page.data)) =>
        LET items == ResultsOf(page.data)
        IN  \A i \in Recognized(items) :
                "title" \notin DOMAIN items[i]["compactVideoRenderer"] =>
                    /\ result.kind = "return"
                    /\ LET v == items[i]["compactVideoRenderer"]
                           r == result.value[RecordIndex(items, i)]
                       IN  /\ r.title = ""
                           /\ "videoId" \in DOMAIN v => r.video_id = v["videoId"]
                           /\ r.channel_name = GivenChannelName(items[i])
                           /\ r.channel_id = GivenChannelId(items[i])

\* the text after the first marker of a block and before the block's last ";"
TextUpToLastSemicolon(text) ==
    LET m == CHOOSE i \in 1..Len(text) :
                 text[i] = "M" /\ \A j \in 1..(i - 1) : text[j] # "M"
        e == CHOOSE i \in 1..Len(text) :
                 text[i] = ";" /\ \A j \in (i + 1)..Len(text) : text[j] # ";"
    IN  [k \in 1..(IF e > m THEN e - m - 1 ELSE 0) |-> text[m + k]]

\* the characters of a text
Chars(text) == {text[k] : k \in 1..Len(text)}

\* the script blocks with the marker
BlocksWithMarker(scripts) == {i \in 1..Len(scripts) : "M" \in Chars(scripts[i])}

\* the text of the first script block with the marker
FirstBlockWithMarker(scripts) ==
    scripts[CHOOSE i \in BlocksWithMarker(scripts) :
                \A j \in BlocksWithMarker(scripts) : i <= j]

\* C10: with the marker in no script block the call raises "could not find";
\* with the marker in some block, the text between the marker and the last
\* ";" of the first such block decides: if it is not JSON the call raises,
\* whatever the later blocks hold.
C10_ExtractionFailures ==
    (spc = "done" /\ response = GoodStatus) =>
        LET scripts == PageScripts
        IN  IF BlocksWithMarker(scripts) = {}
            THEN /\ result.kind = "raise"
                 /\ result.exc = "Exception"
                 /\ result.msg = "Could not find the ytInitialData script in the page."
            ELSE LET first == FirstBlockWithMarker(scripts)
                 IN  (";" \in Chars(first) /\ ~IsJsonDocument(TextUpToLastSemicolon(first)))
                         => result.kind = "raise"

\* a page whose first marker block holds no JSON and whose second one does
C10_Witness ==
    /\ spc = "done"
    /\ response = GoodStatus
    /\ LET scripts == PageScripts
       IN  /\ Cardinality(BlocksWithMarker(scripts)) = 2
           /\ ";" \in Chars(FirstBlockWithMarker(scripts))
           /\ ~IsJsonDocument(TextUpToLastSemicolon(FirstBlockWithMarker(scripts)))
           /\ \E i \in BlocksWithMarker(scripts) :
                  /\ ";" \in Chars(scripts[i])
                  /\ IsJsonDocument(TextUpToLastSemicolon(scripts[i]))
    /\ result.kind = "raise"

\* ------------------------------------------------------------------------
\* Properties of mine_channel_recommendations
\* ------------------------------------------------------------------------
\* whether each call made for list position p returned or raised
Kinds(p) == [k \in 1..Len(log[p]) |-> log[p][k].kind]

\* the list positions the loop is through with
Processed == {p \in 1..Len(video_ids) :
                 p < progress \/ (p = progress /\ pc \in {"sleep", "loop", "returned"})}

\* the list positions whose first or second call returned
Succeeded == {p \in 1..Len(video_ids) :
                 Len(log[p]) > 0 /\ log[p][Len(log[p])].kind = "return"}

\* the list positions whose two calls both raised
FailedTwice == {p \in 1..Len(video_ids) : Kinds(p) = <<"raise", "raise">>}

\* C1: every list position gets one Miner call, a second one exactly when
\* the first raised, and never a third; no position is left out.
C1_OneCallOneRetryNoThird ==
    pc # "idle" =>
        /\ \A p \in 1..Len(video_ids) :
               /\ Len(log[p]) <= 2
               /\ Len(log[p]) = 2 => log[p][1].kind = "raise"
               /\ p > progress => Len(log[p]) = 0
               /\ p \in Processed =>
                      /\ Len(log[p]) >= 1
                      /\ log[p][1].kind = "raise" => Len(log[p]) = 2
        /\ pc = "returned" => Processed = 1..Len(video_ids)

\* a finished run with a position that raised twice and one that returned
\* at once
C1_Witness ==
    /\ pc = "returned"
    /\ \E p, q \in 1..Len(video_ids) :
           Kinds(p) = <<"raise", "raise">> /\ Kinds(q) = <<"return">>

\* C2 as claimed: in the returned mapping an id whose calls raised twice has
\* no entry, every position was processed, and an id whose call returned
\* maps to what that call returned.
C2_FailedIdHasNoEntry ==
    pc = "returned" =>
        /\ Processed = 1..Len(video_ids)
        /\ \A p \in FailedTwice : video_ids[p] \notin DOMAIN recommendations
        /\ \A p \in Succeeded :
               /\ video_ids[p] \in DOMAIN recommendations
               /\ recommendations[video_ids[p]] = log[p][Len(log[p])].value

\* the last position of an id whose call returned
LastSuccess(id) ==
    CHOOSE p \in Succeeded :
        /\ video_ids[p] = id
        /\ \A q \in Succeeded : video_ids[q] = id => q <= p

\* C2 as amended: a position whose calls raised twice adds nothing to the
\* mapping and does not stop the run; the mapping holds exactly the ids of
\* which some position returned, each with what the last such call returned.
C2_FailedPositionAddsNothing ==
    pc # "idle" =>
        /\ pc = "returned" => Processed = 1..Len(video_ids)
        /\ DOMAIN recommendations = {video_ids[p] : p \in Succeeded}
        /\ \A id \in {video_ids[p] : p \in Succeeded} :
               recommendations[id] = log[LastSuccess(id)][Len(log[LastSuccess(id)])].value

\* the first id raised twice and is not in the mapping; the second id was
\* still processed and is
C2_Witness ==
    /\ pc = "returned"
    /\ Len(video_ids) = 2
    /\ 1 \in FailedTwice
    /\ 2 \in Succeeded
    /\ video_ids[1] \notin DOMAIN recommendations
    /\ video_ids[2] \in DOMAIN recommendations

\* a Miner call was made before the latest one
HasEarlierCall ==
    /\ pc # "idle"
    /\ \/ progress > 1
       \/ progress = 1 /\ Len(log[1]) = 2

\* C4 as claimed: between any two successive Miner calls the run slept for
\* 1 to 3 time units.
C4_PauseBetweenSuccessiveCalls ==
    HasEarlierCall => lastGap \in MinPause..MaxPause

\* C4 as amended: the run sleeps 1 to 3 time units between the last call
\* for one list position and the first call for the next, whether the
\* earlier position returned or raised; a retry follows the failed call
\* with no pause.
C4_PauseBetweenListPositions ==
    (pc # "idle" /\ progress >= 1) =>
        /\ (Len(log[progress]) = 1 /\ progress > 1) => lastGap \in MinPause..MaxPause
        /\ Len(log[progress]) = 2 => lastGap = 0

\* the call after a position that raised twice came after a pause
C4_Witness ==
    /\ pc # "idle"
    /\ progress = 2
    /\ 1 \in FailedTwice
    /\ Len(log[2]) = 1
    /\ lastGap \in MinPause..MaxPause

\* ------------------------------------------------------------------------
\* Properties of mine_recommendation_bias
\* ------------------------------------------------------------------------
\* the loop is through with channel c
Handled(c) == c < ci \/ (c = ci /\ bpc \in {"next", "returned", "raised"})

\* the channel had a checkpoint holding a non-empty mapping
Checkpointed(c) ==
    files0[c].exists /\ files0[c].valid /\ DOMAIN files0[c].data # {}

\* the channel had no checkpoint, or one holding the empty mapping
NotCheckpointed(c) ==
    ~files0[c].exists \/ (files0[c].valid /\ DOMAIN files0[c].data = {})

\* C3: a channel with a non-empty checkpoint is never mined, its file is
\* left as it was and the loaded mapping becomes its result; a channel
\* without a checkpoint, or with an empty one, is mined.
C3_CheckpointedChannelsAreSkipped ==
    \A c \in Channels :
        /\ Checkpointed(c) =>
               /\ c \notin started
               /\ files[c] = files0[c]
               /\ Handled(c) =>
                      /\ c \in DOMAIN recommendation_bias
                      /\ recommendation_bias[c] = files0[c].data
        /\ (NotCheckpointed(c) /\ Handled(c)) => c \in started

\* ------------------------------------------------------------------------
\* Properties of the errors of get_recommended_videos
\* ------------------------------------------------------------------------
\* what went wrong in the call, read off the response and the page served
FailureKind ==
    IF response # GoodStatus THEN "transport"
    ELSE IF ~IsJson(YtInitialData(PageScripts)) THEN "extraction"
    ELSE IF PathKeyMissing(page.data) THEN "parse"
    ELSE "item"

\* the kind a caller reads off the class and the message of the error
KindByClassAndMessage(exc, msg) ==
    IF exc = "RequestException" THEN "transport"
    ELSE IF exc = "JSONDecodeError" THEN "extraction"
    ELSE IF exc = "IndexError" THEN "item"
    ELSE IF msg = "Failed to fetch video page, status code" THEN "transport"
    ELSE IF msg = "Could not find the ytInitialData script in the page." THEN "extraction"
    ELSE IF msg = "Failed to parse recommended videos. The structure might have changed."
    THEN "parse"
    ELSE "unknown"

\* C11 as claimed: the variant (class) of the raised error tells the kind of
\* failure, so the class a non-200 status is raised as (Exception, line 28
\* of the scraper) is raised for fetch failures only.
C11_ErrorClassTellsKind ==
    (spc = "done" /\ result.kind = "raise" /\ result.exc = "Exception")
        => FailureKind = "transport"

\* C11 as amended: the class together with the message of the raised error
\* tells the kind of failure; the class alone does not, a non-200 status, a
\* missing blob and an unresolvable path all being raised as Exception.
C11_ClassAndMessageTellKind ==
    (spc = "done" /\ result.kind = "raise")
        => /\ KindByClassAndMessage(result.exc, result.msg) = FailureKind
           /\ FailureKind \in {"transport", "parse"} /\ response # "error"
                  => result.exc = "Exception"
           /\ FailureKind = "extraction"
                  => result.exc \in {"Exception", "JSONDecodeError"}

\* an unresolvable path raised as the class a non-200 status is raised as
C11_Witness ==
    /\ spc = "done"
    /\ response = GoodStatus
    /\ result.kind = "raise"
    /\ FailureKind = "parse"
    /\ result.exc = "Exception"
    /\ result.msg # "Failed to fetch video page, status code"

\* ------------------------------------------------------------------------
\* Properties of the accumulating mapping of mine_channel_recommendations
\* ------------------------------------------------------------------------
\* the ids of the list positions the loop has entered so far
IdsSoFar == {video_ids[p] : p \in 1..progress}

\* C12 as claimed: in every step of a run, whatever the list (repeated ids
\* included), an entry of the mapping is neither removed nor given another
\* value, and the keys are ids of positions processed so far.
C12_EntriesNeverChange ==
    [][(pc # "idle" /\ pc' # "idle") =>
          /\ \A id \in DOMAIN recommendations :
                 /\ id \in DOMAIN recommendations'
                 /\ recommendations'[id] = recommendations[id]
          /\ DOMAIN recommendations' \subseteq IdsSoFar']_vars

\* C12 as amended: in every step of a run an entry is never removed and the
\* keys are ids of positions processed so far; an entry gets another value
\* only in a step in which the call for the current position, holding the
\* same id again, returned, and the new value is what that call returned.
C12_EntriesOnlyReplacedBySameId ==
    [][(pc # "idle" /\ pc' # "idle") =>
          /\ DOMAIN recommendations \subseteq DOMAIN recommendations'
          /\ DOMAIN recommendations' \subseteq IdsSoFar'
          /\ \A id \in DOMAIN recommendations :
                 recommendations'[id] # recommendations[id] =>
                     /\ progress' >= 1
                     /\ video_ids[progress'] = id
                     /\ Len(log'[progress']) = Len(log[progress']) + 1
                     /\ log'[progress'][Len(log'[progress'])].kind = "return"
                     /\ recommendations'[id] = log'[progress'][Len(log'[progress'])].value]_vars

\* a list holding one id twice: the call for the first position returned,
\* the one for the second returned something else, and the entry of the id
\* now holds the latter
C12_Witness ==
    /\ Len(video_ids) = 2
    /\ video_ids[1] = video_ids[2]
    /\ progress = 2
    /\ Kinds(1) = <<"return">>
    /\ Len(log[2]) > 0
    /\ log[2][Len(log[2])].kind = "return"
    /\ log[2][Len(log[2])].value # log[1][1].value
    /\ DOMAIN recommendations = {video_ids[1]}
    /\ recommendations[video_ids[1]] = log[2][Len(log[2])].value

\* ------------------------------------------------------------------------
\* Properties of the checkpoints of mine_recommendation_bias
\* ------------------------------------------------------------------------
\* the step in which the mapping mined for channel ci is stored and saved
SaveStep == bpc = "mining" /\ pc = "returned" /\ bpc' = "next"

\* the step in which the mining of channel ci raised before its first call
MiningRaisedStep == bpc = "mine" /\ bpc' = "next"

\* a Miner call for channel ci is made or about to be made
InMinerCalls == pc \in {"loop", "retry", "sleep"}

\* the checkpoint and the result of a channel do not change once the loop
\* has left the channel
HandledChannelsAreKept ==
    \A c \in Channels :
        (Handled(c) /\ bpc # "raised") =>
            /\ files'[c] = files[c]
            /\ c \in DOMAIN recommendation_bias
            /\ c \in DOMAIN recommendation_bias'
            /\ recommendation_bias'[c] = recommendation_bias[c]

\* a dictionary that is returned has an entry for every channel
ReturnedHasEveryChannel ==
    bpc = "returned" => DOMAIN recommendation_bias = Channels

\* Miner calls are made for the current channel only, after the loop has
\* left every channel before it
MinerCallsAfterEarlierChannels ==
    InMinerCalls =>
        /\ bpc = "mining"
        /\ \A c \in Channels : c < ci => c \in DOMAIN recommendation_bias

\* C13 as claimed: the mapping mined for a channel is in the channel's
\* checkpoint file when the loop leaves the channel, hence before any Miner
\* call for the next one, and stays there; a returned dictionary has an
\* entry for every channel, the empty mapping for one whose mining raised.
C13_MinedMappingIsCheckpointed ==
    /\ [](ReturnedHasEveryChannel /\ MinerCallsAfterEarlierChannels)
    /\ [][/\ SaveStep => files'[ci] = Stored(recommendations)
          /\ MiningRaisedStep => recommendation_bias'[ci] = EmptyDict
          /\ HandledChannelsAreKept]_vars

\* C13 as amended: when the loop leaves a mined channel, either the mapping
\* is in the channel's file and is the channel's result, or the save raised,
\* the file does not hold the mapping (it is as before or truncated) and the
\* result is the empty mapping; this is settled before any Miner call for
\* the next channel and does not change afterwards; a returned dictionary
\* has an entry for every channel, the empty mapping for one whose mining
\* raised.
C13_MinedMappingIsCheckpointedUnlessSaveRaised ==
    /\ [](ReturnedHasEveryChannel /\ MinerCallsAfterEarlierChannels)
    /\ [][/\ SaveStep =>
                \/ /\ files'[ci] = Stored(recommendations)
                   /\ recommendation_bias'[ci] = recommendations
                \/ /\ files'[ci] \in {files[ci], CorruptFile}
                   /\ recommendation_bias'[ci] = EmptyDict
          /\ MiningRaisedStep =>
                /\ recommendation_bias'[ci] = EmptyDict
                /\ files'[ci] = files[ci]
          /\ HandledChannelsAreKept]_vars

\* a returned dictionary after two channels were mined: the save of the
\* first raised after truncating the file, the second holds what is in its
\* file
C13_Witness ==
    /\ bpc = "returned"
    /\ started = {1, 2}
    /\ files0[1] = NoFile
    /\ files[1] = CorruptFile
    /\ recommendation_bias[1] = EmptyDict
    /\ DOMAIN recommendation_bias[2] # {}
    /\ files[2] = Stored(recommendation_bias[2])

====
